---- MODULE Spec2Model ----
(***************************************************************************)
(* Model of app_meteo.py (Meteogrammi): the geocoding lookup               *)
(* get_coordinates_from_city, the forecast normaliser                      *)
(* fetch_and_process_data and the output section of the Streamlit script   *)
(* that consumes its result.                                               *)
(*                                                                         *)
(* Conventions.  Python's None is the empty tuple <<>> and a present value *)
(* x is <<x>> where a slot may hold either.  A pandas DataFrame is a       *)
(* function from column names to equally long sequences.  Timestamps are   *)
(* texts (records of calendar fields) until pandas parses them, and are    *)
(* then integers counting seconds from day 0, 00:00:00.                    *)
(***************************************************************************)
EXTENDS Integers, Sequences, FiniteSets, TLC

\* Longest sequence the forecast service returns in the model.
MaxLen == 4
\* Calendar days run over 0..MaxDay, for the form's dates and the replies.
MaxDay == 1

None == <<>>
Some(x) == <<x>>

Min(a, b) == IF a <= b THEN a ELSE b

\* Python's s[:n] for n >= 0: the first n entries, or all of s when shorter.
Take(s, n) == SubSeq(s, 1, Min(n, Len(s)))

----------------------------------------------------------------------------
(* Dates and timestamps                                                    *)

Days == 0..MaxDay

\* A timestamp text: a calendar day and, when the text has one, a time of day.
DateText(d) == [day |-> d, tod |-> None]

\* date.strftime("%Y-%m-%d"): the calendar day alone, no time of day.
Strftime(d) == DateText(d)

\* text + " 23:59:59"
WithEndOfDay(txt) == [day |-> txt.day, tod |-> Some(<<23, 59, 59>>)]

\* pandas' parse of a timestamp text (pd.to_datetime, and the coercion of the
\* string operand of a comparison with a datetime column): a date without a
\* time of day is midnight.
ToDatetime(txt) ==
    txt.day * (24 * 3600)
      + (IF txt.tod = None THEN 0
         ELSE txt.tod[1][1] * 3600 + txt.tod[1][2] * 60 + txt.tod[1][3])

----------------------------------------------------------------------------
(* The forecast request and what the service may answer                    *)

\* The hourly parameters the request names, in the request's order.
RequestedKeys ==
    { "temperature_2m", "dew_point_2m", "relative_humidity_2m",
      "cloud_cover_low", "cloud_cover_mid", "cloud_cover_high",
      "surface_pressure", "wind_speed_10m", "wind_direction_10m",
      "wind_gusts_10m", "rain", "snowfall", "freezing_level_height" }

AllKeys == RequestedKeys \cup {"time"}

\* Times of day the replies' timestamps take: the two ends of a civil day.
TimesOfDay == { <<0, 0, 0>>, <<23, 59, 59>> }

TimeTexts == { [day |-> d, tod |-> Some(t)] : d \in Days, t \in TimesOfDay }

\* a is an earlier instant than b, read off the texts' calendar fields.
Earlier(a, b) ==
    \/ a.day < b.day
    \/ /\ a.day = b.day
       /\ LET x == a.tod[1]
              y == b.tod[1]
          IN  \/ x[1] < y[1]
              \/ x[1] = y[1] /\ x[2] < y[2]
              \/ x[1] = y[1] /\ x[2] = y[2] /\ x[3] < y[3]

\* The service emits its timeline in increasing order.
Increasing(ts) == \A i \in 1..(Len(ts) - 1) : Earlier(ts[i], ts[i + 1])

Timelines ==
    UNION { { ts \in [1..n -> TimeTexts] : Increasing(ts) } : n \in 0..MaxLen }

\* The weather a reply describes decides the values of its sequences.
Weathers == { "clear", "showers", "blizzard", "storm" }

Reading(w, k, i) ==
    CASE k = "rain" ->
           (CASE w = "showers" -> 3 * (i % 2)
              [] w = "storm" -> 2 + (i % 2)
              [] OTHER -> 0)
      [] k = "snowfall" ->
           (CASE w = "blizzard" -> i
              [] w = "storm" -> (i + 1) % 2
              [] OTHER -> 0)
      [] k = "cloud_cover_low" ->
           (CASE w = "clear" -> 0
              [] w = "showers" -> 40
              [] w = "blizzard" -> 100
              [] OTHER -> 60 + i)
      [] k = "cloud_cover_mid" ->
           (CASE w = "clear" -> 0
              [] w = "showers" -> 30
              [] w = "blizzard" -> 100
              [] OTHER -> 50)
      [] k = "cloud_cover_high" ->
           (CASE w = "clear" -> 0
              [] w = "showers" -> 20
              [] w = "blizzard" -> 100
              [] OTHER -> 10 * i)
      [] OTHER -> i

\* The keys whose sequence the service may cut to another length.
OddKeys == { "surface_pressure", "rain" }

\* The 'hourly' object of a reply: the keys in `present`, the timeline `ts`,
\* every data sequence n long except `odd`, which is oddLen long.
Hourly(present, ts, n, odd, oddLen, w) ==
    [ k \in present |->
        IF k = "time" THEN ts
        ELSE IF k = "interval" THEN <<3600>>
        ELSE [ i \in 1..(IF k = odd THEN oddLen ELSE n) |-> Reading(w, k, i) ] ]

\* Replies that carry every requested key, with lengths that may disagree.
FullReplies ==
    { Hourly(AllKeys, ts, n, odd, oddLen, w) :
        ts \in Timelines, n \in 0..MaxLen,
        odd \in OddKeys, oddLen \in 0..MaxLen, w \in Weathers }

\* Replies whose set of keys is not the requested one.
KeySets ==
    { {}, {"time"}, {"time", "interval"}, AllKeys \ {"snowfall"},
      AllKeys \ {"time"}, AllKeys \cup {"interval"} }

PartialReplies ==
    { Hourly(ks, ts, n, "rain", n, "showers") :
        ks \in KeySets, ts \in Timelines, n \in 0..MaxLen }

HourlyReplies == FullReplies \cup PartialReplies

\* What requests.get / raise_for_status / response.json() come to.
HttpOutcomes == { "connection_error", "http_error", "ok" }

----------------------------------------------------------------------------
(* fetch_and_process_data: the pure steps                                  *)

\* The DataFrame's columns and the 'hourly' key each is read from.
ColumnKey ==
    [ time |-> "time", temp |-> "temperature_2m", dew_point |-> "dew_point_2m",
      humidity |-> "relative_humidity_2m", clouds_low |-> "cloud_cover_low",
      clouds_mid |-> "cloud_cover_mid", clouds_high |-> "cloud_cover_high",
      pressure |-> "surface_pressure", wind_speed |-> "wind_speed_10m",
      wind_gusts |-> "wind_gusts_10m", wind_dir |-> "wind_direction_10m",
      rain |-> "rain", snowfall |-> "snowfall",
      freezing_lvl |-> "freezing_level_height" ]

Columns == DOMAIN ColumnKey

\* Variant: the lengths with only 'time' left out, 'interval' counted.
ArrayLengths_CountInterval(h) ==
    [ k \in (DOMAIN h) \ {"time"} |-> Len(h[k]) ]

\* [len(v) for k, v in hourly.items() if k not in ['time', 'interval']],
\* kept per key.
ArrayLengths(h) ==
    [ k \in (DOMAIN h) \ {"time", "interval"} |-> Len(h[k]) ]

\* min(array_lengths), for a non-empty list.
MinOf(lengths) ==
    CHOOSE m \in { lengths[k] : k \in DOMAIN lengths } :
        \A k \in DOMAIN lengths : m <= lengths[k]

\* Variant: the timestamps parsed to their calendar day alone.
ToDatetimeAll_DateOnly(txts) ==
    [ i \in 1..Len(txts) |-> ToDatetime(DateText(txts[i].day)) ]

\* pd.to_datetime over a list of timestamp texts.
ToDatetimeAll(txts) == [ i \in 1..Len(txts) |-> ToDatetime(txts[i]) ]

\* The dict handed to pd.DataFrame: every column sliced to min_length.
SlicedColumns(h, m) ==
    [ c \in Columns |->
        IF c = "time" THEN ToDatetimeAll(Take(h["time"], m))
        ELSE Take(h[ColumnKey[c]], m) ]

\* hourly[<key>] raises KeyError for a key the reply lacks.
MissingKey(h) == \E c \in Columns : ColumnKey[c] \notin DOMAIN h

\* pd.DataFrame raises ValueError unless all the columns are equally long.
SameLength(cols) == \A c, d \in DOMAIN cols : Len(cols[c]) = Len(cols[d])

RowCount(df) == Len(df["time"])

\* Series + Series: element by element.
SeriesAdd(a, b) == [ i \in 1..Len(a) |-> a[i] + b[i] ]

\* Series.cumsum(): the running total, entry by entry.
RECURSIVE CumsumFrom(_, _)
CumsumFrom(acc, s) ==
    IF s = <<>> THEN <<>>
    ELSE <<acc + s[1]>> \o CumsumFrom(acc + s[1], Tail(s))

\* Variant: the hourly values themselves, no running total.
Cumsum_NoRunningTotal(s) == s

Cumsum(s) == CumsumFrom(0, s)

\* Variant: the sum of the three layers capped at 100.
CloudsTotal_Clamped(df) ==
    [ i \in 1..Len(df["clouds_low"]) |->
        Min(100, df["clouds_low"][i] + df["clouds_mid"][i]
                   + df["clouds_high"][i]) ]

CloudsTotal(df) ==
    SeriesAdd(SeriesAdd(df["clouds_low"], df["clouds_mid"]), df["clouds_high"])

\* The three derived columns, added to the frame.
WithDerived(df) ==
    ("clouds_total" :> CloudsTotal(df))
      @@ ("accumulated_rain" :> Cumsum(df["rain"]))
      @@ ("accumulated_snow" :> Cumsum(df["snowfall"]))
      @@ df

\* Variant: the upper bound without " 23:59:59", the end date's midnight.
DateMask_EndAtMidnight(times, sd, ed) ==
    [ i \in 1..Len(times) |->
        /\ times[i] >= ToDatetime(Strftime(sd))
        /\ times[i] <= ToDatetime(Strftime(ed)) ]

\* (df['time'] >= start text) & (df['time'] <= end text + " 23:59:59")
DateMask(times, sd, ed) ==
    [ i \in 1..Len(times) |->
        /\ times[i] >= ToDatetime(Strftime(sd))
        /\ times[i] <= ToDatetime(WithEndOfDay(Strftime(ed))) ]

\* series[mask]: the entries the mask marks, in their order.
RECURSIVE MaskSelect(_, _)
MaskSelect(s, mask) ==
    IF s = <<>> THEN <<>>
    ELSE (IF mask[1] THEN <<s[1]>> ELSE <<>>)
           \o MaskSelect(Tail(s), Tail(mask))

\* Variant: the filter first and the running totals over what it keeps.
FilterRows_ThenAccumulate(df, mask) ==
    [ c \in DOMAIN df |->
        IF c = "accumulated_rain" THEN Cumsum(MaskSelect(df["rain"], mask))
        ELSE IF c = "accumulated_snow"
             THEN Cumsum(MaskSelect(df["snowfall"], mask))
        ELSE MaskSelect(df[c], mask) ]

\* df[mask]
FilterRows(df, mask) == [ c \in DOMAIN df |-> MaskSelect(df[c], mask) ]

----------------------------------------------------------------------------
(* State                                                                   *)

VARIABLES
    pc,            \* where the script run stands
    start_date,    \* the form's "Dal:" date
    end_date,      \* the form's "Al:" date
    n_requests,    \* forecast requests issued by this run
    hourly,        \* data['hourly'] once the reply is in, else None
    min_length,    \* the local of that name, None until computed
    df_temp,       \* the local DataFrame, None until built
    df_meteo,      \* what the call returned: None or a DataFrame
    exc,           \* the exception the run died of, None if none
    st_errors,     \* st.error messages shown, in order
    st_warnings,   \* st.warning messages shown, in order
    chart_shown,   \* st.pyplot was called
    downloads,     \* the download buttons offered
    geo_pc,        \* where a get_coordinates_from_city call stands
    city_name,     \* its argument
    geo_data,      \* response.json() once the reply is in, else None
    geo_caught,    \* the exception its except clause caught, None if none
    geo_ret,       \* the tuple it returned, None until it returns
    clock,         \* the process's time, in seconds
    ticks,         \* how often the clock has advanced
    fetch_cache,   \* st.cache_data's entries for fetch_and_process_data
    geo_cache,     \* st.cache_data's entries for get_coordinates_from_city
    calls,         \* the calls made to the two cached functions, in order
    search_method,     \* the radio's choice, "" before it is read
    city_input,        \* the text of the search box
    final_lat,         \* the script's final_lat: None or a number
    final_lon,         \* the script's final_lon: None or a number
    location_name,     \* the script's location_name
    location_altitude, \* the script's location_altitude
    stop_exec,         \* the script's stop_exec
    btn_generate,      \* the script's btn_generate
    st_success         \* st.success messages shown, in order

\* The variables of the forecast call and the output section.
fvars ==
    << pc, start_date, end_date, n_requests, hourly, min_length, df_temp,
       df_meteo, exc, st_errors, st_warnings, chart_shown, downloads >>

\* The variables of the geocoding lookup.
gvars == << geo_pc, city_name, geo_data, geo_caught, geo_ret >>

\* The variables of the process-wide caches.
cvars == << clock, ticks, fetch_cache, geo_cache, calls >>

\* The variables of the form.
uvars ==
    << search_method, city_input, final_lat, final_lon, location_name,
       location_altitude, stop_exec, btn_generate, st_success >>

vars == << fvars, gvars, cvars, uvars >>

\* The script's initialisations, before any widget is read.
FormUnset ==
    /\ search_method = ""
    /\ city_input = ""
    /\ final_lat = None
    /\ final_lon = None
    /\ location_name = "Località"
    /\ location_altitude = 0
    /\ stop_exec = FALSE
    /\ btn_generate = FALSE
    /\ st_success = <<>>

\* The form as the output section finds it when it makes the call.
FormAtCall ==
    /\ search_method = "coordinates"
    /\ city_input = ""
    /\ final_lat = Some(45)
    /\ final_lon = Some(9)
    /\ location_name = "Località"
    /\ location_altitude = 0
    /\ stop_exec = FALSE
    /\ btn_generate = TRUE
    /\ st_success = <<>>

MsgApi == "Errore API Meteo"
MsgNoData == "L'API non ha restituito dati validi. Prova a modificare le date."
MsgNoPeriod == "Nessun dato disponibile per il periodo selezionato."

\* The output section reaches the call with the button pressed, the dates in
\* order and a coordinate set.
Init ==
    /\ pc = "call"
    /\ start_date \in Days
    /\ end_date \in Days
    /\ start_date <= end_date
    /\ n_requests = 0
    /\ hourly = None
    /\ min_length = None
    /\ df_temp = None
    /\ df_meteo = None
    /\ exc = None
    /\ st_errors = <<>>
    /\ st_warnings = <<>>
    /\ chart_shown = FALSE
    /\ downloads = {}
    /\ geo_pc = "idle"
    /\ city_name = ""
    /\ geo_data = None
    /\ geo_caught = None
    /\ geo_ret = None
    /\ clock = 0
    /\ ticks = 0
    /\ fetch_cache = <<>>
    /\ geo_cache = <<>>
    /\ calls = <<>>
    /\ FormAtCall

----------------------------------------------------------------------------
(* fetch_and_process_data, step by step                                    *)

\* requests.get or raise_for_status raises a RequestException.
RequestFails ==
    /\ pc = "call"
    /\ \E o \in HttpOutcomes \ {"ok"} :
         /\ n_requests' = n_requests + 1
         /\ st_errors' = Append(st_errors, MsgApi)
         /\ df_meteo' = None
         /\ pc' = "returned"
    /\ UNCHANGED << gvars, cvars, uvars, start_date, end_date, hourly, min_length, df_temp, exc,
                    st_warnings, chart_shown, downloads >>

\* The reply is in: hourly = data['hourly'].
RequestSucceeds ==
    /\ pc = "call"
    /\ \E h \in HourlyReplies :
         /\ n_requests' = n_requests + 1
         /\ hourly' = Some(h)
         /\ pc' = "fetched"
    /\ UNCHANGED << gvars, cvars, uvars, start_date, end_date, min_length, df_temp, df_meteo, exc,
                    st_errors, st_warnings, chart_shown, downloads >>

\* array_lengths is empty: the error message, and None.
ReconcileFails ==
    /\ pc = "fetched"
    /\ DOMAIN ArrayLengths(hourly[1]) = {}
    /\ st_errors' = Append(st_errors, MsgNoData)
    /\ df_meteo' = None
    /\ pc' = "returned"
    /\ UNCHANGED << gvars, cvars, uvars, start_date, end_date, n_requests, hourly, min_length,
                    df_temp, exc, st_warnings, chart_shown, downloads >>

\* min_length = min(array_lengths)
Reconcile ==
    /\ pc = "fetched"
    /\ DOMAIN ArrayLengths(hourly[1]) # {}
    /\ min_length' = Some(MinOf(ArrayLengths(hourly[1])))
    /\ pc' = "reconciled"
    /\ UNCHANGED << gvars, cvars, uvars, start_date, end_date, n_requests, hourly, df_temp,
                    df_meteo, exc, st_errors, st_warnings, chart_shown,
                    downloads >>

\* What building the DataFrame raises: KeyError from hourly[<key>] for a key
\* the reply lacks, ValueError from pd.DataFrame for columns that disagree in
\* length, None when it is built.
BuildError(h, m) ==
    IF MissingKey(h) THEN Some("KeyError")
    ELSE IF ~SameLength(SlicedColumns(h, m)) THEN Some("ValueError")
    ELSE None

\* The DataFrame cannot be built.  The exception leaves the function and ends
\* the script run.
BuildRaises ==
    /\ pc = "reconciled"
    /\ BuildError(hourly[1], min_length[1]) # None
    /\ exc' = BuildError(hourly[1], min_length[1])
    /\ pc' = "raised"
    /\ UNCHANGED << gvars, cvars, uvars, start_date, end_date, n_requests, hourly, min_length,
                    df_temp, df_meteo, st_errors, st_warnings, chart_shown,
                    downloads >>

\* df_temp = pd.DataFrame({...})
Build ==
    /\ pc = "reconciled"
    /\ BuildError(hourly[1], min_length[1]) = None
    /\ df_temp' = Some(SlicedColumns(hourly[1], min_length[1]))
    /\ pc' = "built"
    /\ UNCHANGED << gvars, cvars, uvars, start_date, end_date, n_requests, hourly, min_length,
                    df_meteo, exc, st_errors, st_warnings, chart_shown,
                    downloads >>

\* clouds_total, accumulated_rain, accumulated_snow
Derive ==
    /\ pc = "built"
    /\ df_temp' = Some(WithDerived(df_temp[1]))
    /\ pc' = "derived"
    /\ UNCHANGED << gvars, cvars, uvars, start_date, end_date, n_requests, hourly, min_length,
                    df_meteo, exc, st_errors, st_warnings, chart_shown,
                    downloads >>

\* The date filter, and the return of the filtered frame.
Filter ==
    /\ pc = "derived"
    /\ LET mask == DateMask(df_temp[1]["time"], start_date, end_date)
       IN  /\ df_temp' = Some(FilterRows(df_temp[1], mask))
           /\ df_meteo' = df_temp'
    /\ pc' = "returned"
    /\ UNCHANGED << gvars, cvars, uvars, start_date, end_date, n_requests, hourly, min_length,
                    exc, st_errors, st_warnings, chart_shown, downloads >>

----------------------------------------------------------------------------
(* The output section                                                      *)

\* Variant: None taken for a table to plot.
Usable_AcceptsNone(df) == df = None \/ RowCount(df[1]) > 0

\* Variant: the test for None alone, an empty table plotted.
Usable_IgnoresEmpty(df) == df # None

\* df_meteo is not None and not df_meteo.empty
Usable(df) == df # None /\ RowCount(df[1]) > 0

\* The chart and the two download buttons.
OutputChart ==
    /\ pc = "returned"
    /\ Usable(df_meteo)
    /\ chart_shown' = TRUE
    /\ downloads' = {"svg", "csv"}
    /\ pc' = "done"
    /\ UNCHANGED << gvars, cvars, uvars, start_date, end_date, n_requests, hourly, min_length,
                    df_temp, df_meteo, exc, st_errors, st_warnings >>

\* The else branch: the warning.
OutputWarning ==
    /\ pc = "returned"
    /\ ~Usable(df_meteo)
    /\ st_warnings' = Append(st_warnings, MsgNoPeriod)
    /\ pc' = "done"
    /\ UNCHANGED << gvars, cvars, uvars, start_date, end_date, n_requests, hourly, min_length,
                    df_temp, df_meteo, exc, st_errors, chart_shown,
                    downloads >>

Next ==
    \/ RequestFails
    \/ RequestSucceeds
    \/ ReconcileFails
    \/ Reconcile
    \/ BuildRaises
    \/ Build
    \/ Derive
    \/ Filter
    \/ OutputChart
    \/ OutputWarning

Spec == Init /\ [][Next]_vars

----------------------------------------------------------------------------
(* get_coordinates_from_city                                               *)

\* Longest list of results the geocoding service returns in the model.
MaxResults == 2

CityNames == { "Milano", "Atlantide" }

ResultFields == { "latitude", "longitude", "name", "country", "elevation" }

\* Two places the service knows, the second on the equator.
Places ==
    { [ latitude |-> 45, longitude |-> 9, name |-> "Milano",
        country |-> "Italia", elevation |-> 120 ],
      [ latitude |-> 0, longitude |-> 109, name |-> "Pontianak",
        country |-> "Indonesia", elevation |-> 1 ] }

Restrict(f, D) == [ k \in D |-> f[k] ]

\* A result object: a place, with any of its fields left out.
ResultObjects == { Restrict(p, D) : p \in Places, D \in SUBSET ResultFields }

ResultTails == UNION { [1..n -> Places] : n \in 0..(MaxResults - 1) }

ResultLists ==
    { <<>> } \cup { <<r>> \o t : r \in ResultObjects, t \in ResultTails }

\* The JSON documents response.json() may yield: an object with or without a
\* "results" member, or a document that is no object at all.
GeoBodies ==
    { [ type |-> "object", results |-> None ] }
      \cup { [ type |-> "object", results |-> Some(rs) ] : rs \in ResultLists }
      \cup { [ type |-> t, results |-> None ] : t \in { "array", "null", "number" } }

\* What requests.get or response.json() may raise.
RequestErrors == { "ConnectionError", "JSONDecodeError" }

\* Variant: an except clause for the request's exceptions only.
Catches_RequestErrorsOnly(e) == e \in RequestErrors

\* `except Exception` catches every exception the body can raise.
Catches(e) ==
    e \in { "ConnectionError", "JSONDecodeError", "TypeError", "IndexError",
            "KeyError" }

\* "results" in data
HasResults(data) == data.type = "object" /\ data.results # None

\* The exception the body raises on `data`, None if it returns: TypeError from
\* `in` on a document that is no container, IndexError from [0] on an empty
\* list, KeyError from a result that lacks a required field.
BodyRaises(data) ==
    IF data.type \in { "null", "number" } THEN Some("TypeError")
    ELSE IF ~HasResults(data) THEN None
    ELSE IF data.results[1] = <<>> THEN Some("IndexError")
    ELSE IF { "latitude", "longitude", "name" }
              \subseteq DOMAIN data.results[1][1] THEN None
    ELSE Some("KeyError")

\* dict.get(key, default)
Get(d, key, default) == IF key \in DOMAIN d THEN d[key] ELSE default

\* The tuple of the success path, from result = data["results"][0].
Found(result) ==
    << Some(result["latitude"]), Some(result["longitude"]),
       Some(result["name"]), Some(Get(result, "country", "")),
       Get(result, "elevation", 0) >>

\* The tuple of the two failure paths: None, None, None, None, 0.
NotFound == << None, None, None, None, 0 >>

InitGeo ==
    /\ geo_pc = "call"
    /\ city_name \in CityNames
    /\ geo_data = None
    /\ geo_caught = None
    /\ geo_ret = None
    /\ pc = "idle"
    /\ start_date = 0
    /\ end_date = 0
    /\ n_requests = 0
    /\ hourly = None
    /\ min_length = None
    /\ df_temp = None
    /\ df_meteo = None
    /\ exc = None
    /\ st_errors = <<>>
    /\ st_warnings = <<>>
    /\ chart_shown = FALSE
    /\ downloads = {}
    /\ clock = 0
    /\ ticks = 0
    /\ fetch_cache = <<>>
    /\ geo_cache = <<>>
    /\ calls = <<>>
    /\ FormUnset

\* An exception e inside the try block: the except clause returns NotFound
\* if it catches e, and e leaves the function otherwise.
Handle(e) ==
    /\ geo_caught' = IF Catches(e) THEN Some(e) ELSE None
    /\ geo_ret' = IF Catches(e) THEN Some(NotFound) ELSE None
    /\ geo_pc' = IF Catches(e) THEN "returned" ELSE "raised"

\* requests.get or response.json() raises.
GeoRequestRaises ==
    /\ geo_pc = "call"
    /\ \E e \in RequestErrors : Handle(e)
    /\ UNCHANGED << fvars, cvars, uvars, city_name, geo_data >>

\* data = response.json()
GeoReply ==
    /\ geo_pc = "call"
    /\ \E d \in GeoBodies : geo_data' = Some(d)
    /\ geo_pc' = "parsed"
    /\ UNCHANGED << fvars, cvars, uvars, city_name, geo_caught, geo_ret >>

\* The success path.
GeoMatch ==
    /\ geo_pc = "parsed"
    /\ BodyRaises(geo_data[1]) = None
    /\ HasResults(geo_data[1])
    /\ geo_ret' = Some(Found(geo_data[1].results[1][1]))
    /\ geo_pc' = "returned"
    /\ UNCHANGED << fvars, cvars, uvars, city_name, geo_data, geo_caught >>

\* The else branch: no "results" in the document.
GeoNoMatch ==
    /\ geo_pc = "parsed"
    /\ BodyRaises(geo_data[1]) = None
    /\ ~HasResults(geo_data[1])
    /\ geo_ret' = Some(NotFound)
    /\ geo_pc' = "returned"
    /\ UNCHANGED << fvars, cvars, uvars, city_name, geo_data, geo_caught >>

\* The body raises while it reads the document.
GeoBodyRaises ==
    /\ geo_pc = "parsed"
    /\ BodyRaises(geo_data[1]) # None
    /\ Handle(BodyRaises(geo_data[1])[1])
    /\ UNCHANGED << fvars, cvars, uvars, city_name, geo_data >>

NextGeo ==
    \/ GeoRequestRaises
    \/ GeoReply
    \/ GeoMatch
    \/ GeoNoMatch
    \/ GeoBodyRaises

SpecGeo == InitGeo /\ [][NextGeo]_vars

----------------------------------------------------------------------------
(* The two functions as whole calls                                        *)

\* fetch_and_process_data's body run to its end on the outcome o of the
\* request and, when that is "ok", the reply's 'hourly' object h: the
\* exception it raises or None, and the value it returns.
FetchBody(o, h, sd, ed) ==
    IF o # "ok" THEN [ raised |-> None, value |-> None ]
    ELSE IF DOMAIN ArrayLengths(h) = {} THEN [ raised |-> None, value |-> None ]
    ELSE LET m == MinOf(ArrayLengths(h))
         IN  IF BuildError(h, m) # None
             THEN [ raised |-> BuildError(h, m), value |-> None ]
             ELSE LET df == WithDerived(SlicedColumns(h, m))
                  IN  [ raised |-> None,
                        value |-> Some(FilterRows(df,
                                     DateMask(df["time"], sd, ed))) ]

\* get_coordinates_from_city's body run to its end on the exception e of the
\* request (None if it answered) and the document d.
GeoBody(e, d) ==
    LET x == IF e # None THEN e ELSE BodyRaises(d)
    IN  IF x # None
        THEN IF Catches(x[1]) THEN [ raised |-> None, value |-> NotFound ]
             ELSE [ raised |-> x, value |-> NotFound ]
        ELSE IF HasResults(d)
             THEN [ raised |-> None, value |-> Found(d.results[1][1]) ]
             ELSE [ raised |-> None, value |-> NotFound ]

----------------------------------------------------------------------------
(* st.cache_data around the two functions                                  *)

\* Calls and clock advances a run of the process makes in the model.
MaxCalls == 3
MaxTicks == 2

\* @st.cache_data(ttl=3600)
TTL == 3600

\* The clock advances by half the time-to-live at a time.
TickSteps == { TTL \div 2 }

\* Variant: the key without the dates.
CacheKey_NoDates(lat, lon, sd, ed) == << lat, lon >>

\* The key of a fetch_and_process_data entry: the call's four arguments.
CacheKey(lat, lon, sd, ed) == << lat, lon, sd, ed >>

\* The key of a get_coordinates_from_city entry: its one argument.
GeoKey(query) == << query >>

\* The arguments the process calls fetch_and_process_data with.
FetchInputs == { <<45, 9, 0, 0>>, <<45, 9, 0, 1>> }

OneDay ==
    << [day |-> 0, tod |-> Some(<<0, 0, 0>>)],
       [day |-> 0, tod |-> Some(<<23, 59, 59>>)] >>

\* What the forecast service may do when asked: fail, answer with a
\* well-formed reply, or answer with a timeline shorter than its data.
ForecastAnswers ==
    { << "connection_error", <<>> >>,
      << "ok", Hourly(AllKeys, OneDay, 2, "rain", 2, "showers") >>,
      << "ok", Hourly(AllKeys, <<>>, 1, "rain", 1, "clear") >> }

\* What the geocoding service may do when asked: fail, or match.
GeoAnswers ==
    { << Some("ConnectionError"), [ type |-> "object", results |-> None ] >> }
      \cup { << None, [ type |-> "object", results |-> Some(<<pl>>) ] >> :
               pl \in { q \in Places : q.latitude = 0 } }

\* An entry stored `stored` seconds into the run is served until the
\* time-to-live has passed; an entry without time-to-live is served for ever.
Fresh(stored, now) == now < stored + TTL

FetchHit(key) ==
    key \in DOMAIN fetch_cache /\ Fresh(fetch_cache[key].stored, clock)

GeoHit(key) == key \in DOMAIN geo_cache

Call(fn, args, requested, r) ==
    [ fn |-> fn, args |-> args, at |-> clock, requested |-> requested,
      raised |-> r.raised, value |-> r.value ]

InitCache ==
    /\ clock = 0
    /\ ticks = 0
    /\ fetch_cache = <<>>
    /\ geo_cache = <<>>
    /\ calls = <<>>
    /\ geo_pc = "idle"
    /\ city_name = ""
    /\ geo_data = None
    /\ geo_caught = None
    /\ geo_ret = None
    /\ pc = "idle"
    /\ start_date = 0
    /\ end_date = 0
    /\ n_requests = 0
    /\ hourly = None
    /\ min_length = None
    /\ df_temp = None
    /\ df_meteo = None
    /\ exc = None
    /\ st_errors = <<>>
    /\ st_warnings = <<>>
    /\ chart_shown = FALSE
    /\ downloads = {}
    /\ FormUnset

\* Time passes between two calls.
Tick ==
    /\ ticks < MaxTicks
    /\ \E d \in TickSteps : clock' = clock + d
    /\ ticks' = ticks + 1
    /\ UNCHANGED << fvars, gvars, uvars, fetch_cache, geo_cache, calls >>

\* A call of fetch_and_process_data answered from its cache.
FetchCached ==
    /\ Len(calls) < MaxCalls
    /\ \E a \in FetchInputs :
         LET key == CacheKey(a[1], a[2], a[3], a[4])
         IN  /\ FetchHit(key)
             /\ calls' = Append(calls,
                           Call("fetch", a, FALSE,
                                [ raised |-> None,
                                  value |-> fetch_cache[key].value ]))
    /\ UNCHANGED << fvars, gvars, uvars, clock, ticks, fetch_cache, geo_cache >>

\* A call of fetch_and_process_data that runs the function: one request, and
\* the value stored unless the function raised.
FetchComputed ==
    /\ Len(calls) < MaxCalls
    /\ \E a \in FetchInputs, w \in ForecastAnswers :
         LET key == CacheKey(a[1], a[2], a[3], a[4])
             r == FetchBody(w[1], w[2], a[3], a[4])
         IN  /\ ~FetchHit(key)
             /\ calls' = Append(calls, Call("fetch", a, TRUE, r))
             /\ fetch_cache' =
                  IF r.raised = None
                  THEN (key :> [ stored |-> clock, value |-> r.value ])
                         @@ fetch_cache
                  ELSE fetch_cache
    /\ n_requests' = n_requests + 1
    /\ UNCHANGED << gvars, uvars, clock, ticks, geo_cache, pc, start_date, end_date,
                    hourly, min_length, df_temp, df_meteo, exc, st_errors,
                    st_warnings, chart_shown, downloads >>

\* A call of get_coordinates_from_city answered from its cache.
GeoCached ==
    /\ Len(calls) < MaxCalls
    /\ \E q \in CityNames :
         /\ GeoHit(GeoKey(q))
         /\ calls' = Append(calls,
                       Call("geo", <<q>>, FALSE,
                            [ raised |-> None,
                              value |-> geo_cache[GeoKey(q)].value ]))
    /\ UNCHANGED << fvars, gvars, uvars, clock, ticks, fetch_cache, geo_cache >>

\* A call of get_coordinates_from_city that runs the function.
GeoComputed ==
    /\ Len(calls) < MaxCalls
    /\ \E q \in CityNames, w \in GeoAnswers :
         LET r == GeoBody(w[1], w[2])
         IN  /\ ~GeoHit(GeoKey(q))
             /\ calls' = Append(calls, Call("geo", <<q>>, TRUE, r))
             /\ geo_cache' =
                  IF r.raised = None
                  THEN (GeoKey(q) :> [ stored |-> clock, value |-> r.value ])
                         @@ geo_cache
                  ELSE geo_cache
    /\ UNCHANGED << fvars, gvars, uvars, clock, ticks, fetch_cache >>

NextCache ==
    \/ Tick
    \/ FetchCached
    \/ FetchComputed
    \/ GeoCached
    \/ GeoComputed

SpecCache == InitCache /\ [][NextCache]_vars

----------------------------------------------------------------------------
(* The form: one run of the script, the first of its process                *)

MsgNotFound == "Città non trovata."
MsgDates == "Date non valide!"
MsgNoCoord == "Coordinate non valide."

\* What the search box may hold.
CityInputs == { "" } \cup CityNames

\* What the number inputs for the coordinates and the altitude may hold.
LatInputs == { 0, 45 }
LonInputs == { 0, 9 }
AltInputs == { 0, 10 }

\* `if x:` on a value that is None or a number.
Truthy(x) == x # None /\ x[1] # 0

\* Variant: equal dates refused as well.
DatesInvalid_EqualRefused(sd, ed) == sd >= ed

\* start_date > end_date
DatesInvalid(sd, ed) == sd > ed

\* The st.error message fetch_and_process_data shows on the outcome o of the
\* request and the reply's 'hourly' object h, if any.
FetchErrors(o, h) ==
    IF o # "ok" THEN << MsgApi >>
    ELSE IF DOMAIN ArrayLengths(h) = {} THEN << MsgNoData >>
    ELSE << >>

\* A call that runs its function stores the value unless the function raised.
Stored(cache, key, r) ==
    IF r.raised = None
    THEN (key :> [ stored |-> clock, value |-> r.value ]) @@ cache
    ELSE cache

InitUI ==
    /\ pc = "where"
    /\ FormUnset
    /\ start_date = 0
    /\ end_date = 0
    /\ n_requests = 0
    /\ hourly = None
    /\ min_length = None
    /\ df_temp = None
    /\ df_meteo = None
    /\ exc = None
    /\ st_errors = <<>>
    /\ st_warnings = <<>>
    /\ chart_shown = FALSE
    /\ downloads = {}
    /\ geo_pc = "idle"
    /\ city_name = ""
    /\ geo_data = None
    /\ geo_caught = None
    /\ geo_ret = None
    /\ clock = 0
    /\ ticks = 0
    /\ fetch_cache = <<>>
    /\ geo_cache = <<>>
    /\ calls = <<>>

\* The search method with an empty search box: nothing is looked up.
SearchEmpty ==
    /\ pc = "where"
    /\ search_method' = "search"
    /\ city_input' = ""
    /\ pc' = "when"
    /\ UNCHANGED << start_date, end_date, n_requests, hourly, min_length,
                    df_temp, df_meteo, exc, st_errors, st_warnings,
                    chart_shown, downloads, gvars, cvars, final_lat,
                    final_lon, location_name, location_altitude, stop_exec,
                    btn_generate, st_success >>

\* The search method with a text in the box: the lookup, then `if lat_f:`.
SearchLocation ==
    /\ pc = "where"
    /\ search_method' = "search"
    /\ \E text \in CityNames,
          e \in { None } \cup { Some(x) : x \in RequestErrors },
          d \in GeoBodies :
         LET r == GeoBody(e, d)
             lat_f == r.value[1]
             lon_f == r.value[2]
             name_f == r.value[3]
             country_f == r.value[4]
             altitude_f == r.value[5]
         IN  /\ city_input' = text
             /\ city_name' = text
             /\ calls' = Append(calls, Call("geo", << text >>, TRUE, r))
             /\ geo_cache' = Stored(geo_cache, GeoKey(text), r)
             /\ IF r.raised # None
                THEN /\ exc' = r.raised
                     /\ pc' = "raised"
                     /\ UNCHANGED << geo_ret, final_lat, final_lon,
                                     location_name, location_altitude,
                                     st_success, st_errors >>
                ELSE /\ geo_ret' = Some(r.value)
                     /\ pc' = "when"
                     /\ exc' = exc
                     /\ IF Truthy(lat_f)
                        THEN /\ st_success' =
                                  Append(st_success, << name_f[1], country_f[1] >>)
                             /\ final_lat' = lat_f
                             /\ final_lon' = lon_f
                             /\ location_name' = name_f[1]
                             /\ location_altitude' = altitude_f
                             /\ UNCHANGED st_errors
                        ELSE /\ st_errors' = Append(st_errors, MsgNotFound)
                             /\ UNCHANGED << final_lat, final_lon,
                                             location_name, location_altitude,
                                             st_success >>
    /\ UNCHANGED << start_date, end_date, n_requests, hourly, min_length,
                    df_temp, df_meteo, st_warnings, chart_shown, downloads,
                    geo_pc, geo_data, geo_caught, clock, ticks, fetch_cache,
                    stop_exec, btn_generate >>

\* The coordinate method: the four inputs.
EnterCoordinates ==
    /\ pc = "where"
    /\ search_method' = "coordinates"
    /\ \E lat \in LatInputs, lon \in LonInputs, alt \in AltInputs :
         /\ final_lat' = Some(lat)
         /\ final_lon' = Some(lon)
         /\ location_altitude' = alt
    /\ location_name' = "Località"
    /\ pc' = "when"
    /\ UNCHANGED << start_date, end_date, n_requests, hourly, min_length,
                    df_temp, df_meteo, exc, st_errors, st_warnings,
                    chart_shown, downloads, gvars, cvars, city_input,
                    stop_exec, btn_generate, st_success >>

\* The two date inputs and their validation.
ReadDates ==
    /\ pc = "when"
    /\ \E sd \in Days, ed \in Days :
         /\ start_date' = sd
         /\ end_date' = ed
         /\ stop_exec' = DatesInvalid(sd, ed)
         /\ st_errors' = IF DatesInvalid(sd, ed)
                         THEN Append(st_errors, MsgDates) ELSE st_errors
    /\ pc' = "button"
    /\ UNCHANGED << n_requests, hourly, min_length, df_temp, df_meteo, exc,
                    st_warnings, chart_shown, downloads, gvars, cvars,
                    search_method, city_input, final_lat, final_lon,
                    location_name, location_altitude, btn_generate,
                    st_success >>

\* The button: pressed in this run or not.
ReadButton ==
    /\ pc = "button"
    /\ btn_generate' \in BOOLEAN
    /\ pc' = "output"
    /\ UNCHANGED << start_date, end_date, n_requests, hourly, min_length,
                    df_temp, df_meteo, exc, st_errors, st_warnings,
                    chart_shown, downloads, gvars, cvars, search_method,
                    city_input, final_lat, final_lon, location_name,
                    location_altitude, stop_exec, st_success >>

\* btn_generate and not stop_exec
Generating == btn_generate /\ ~stop_exec

\* The output section is skipped.
OutputSkipped ==
    /\ pc = "output"
    /\ ~Generating
    /\ pc' = "done"
    /\ UNCHANGED << start_date, end_date, n_requests, hourly, min_length,
                    df_temp, df_meteo, exc, st_errors, st_warnings,
                    chart_shown, downloads, gvars, cvars, uvars >>

\* The output section without a coordinate.
OutputNoCoordinate ==
    /\ pc = "output"
    /\ Generating
    /\ final_lat = None
    /\ st_errors' = Append(st_errors, MsgNoCoord)
    /\ pc' = "done"
    /\ UNCHANGED << start_date, end_date, n_requests, hourly, min_length,
                    df_temp, df_meteo, exc, st_warnings, chart_shown,
                    downloads, gvars, cvars, uvars >>

\* The output section's call of fetch_and_process_data.
OutputCall ==
    /\ pc = "output"
    /\ Generating
    /\ final_lat # None
    /\ \E w \in ForecastAnswers :
         LET a == << final_lat[1], final_lon[1], start_date, end_date >>
             r == FetchBody(w[1], w[2], start_date, end_date)
         IN  /\ calls' = Append(calls, Call("fetch", a, TRUE, r))
             /\ fetch_cache' =
                  Stored(fetch_cache, CacheKey(a[1], a[2], a[3], a[4]), r)
             /\ st_errors' = st_errors \o FetchErrors(w[1], w[2])
             /\ IF r.raised # None
                THEN /\ exc' = r.raised
                     /\ pc' = "raised"
                     /\ UNCHANGED df_meteo
                ELSE /\ df_meteo' = r.value
                     /\ pc' = "returned"
                     /\ UNCHANGED exc
    /\ n_requests' = n_requests + 1
    /\ UNCHANGED << start_date, end_date, hourly, min_length, df_temp,
                    st_warnings, chart_shown, downloads, gvars, clock, ticks,
                    geo_cache, uvars >>

NextUI ==
    \/ SearchEmpty
    \/ SearchLocation
    \/ EnterCoordinates
    \/ ReadDates
    \/ ReadButton
    \/ OutputSkipped
    \/ OutputNoCoordinate
    \/ OutputCall
    \/ OutputChart
    \/ OutputWarning

SpecUI == InitUI /\ [][NextUI]_vars

----------------------------------------------------------------------------
(* Properties of fetch_and_process_data and the output section (Spec)      *)

\* The reply's keys other than 'time' and 'interval'.
DataBearing(h) == (DOMAIN h) \ {"time", "interval"}

\* The least length among the data-bearing sequences of h.
Shortest(h) ==
    CHOOSE m \in { Len(h[k]) : k \in DataBearing(h) } :
        \A k \in DataBearing(h) : m <= Len(h[k])

Prefix(s, m) == [ i \in 1..m |-> s[i] ]

RECURSIVE SeqSum(_)
SeqSum(s) == IF s = <<>> THEN 0 ELSE s[1] + SeqSum(Tail(s))

\* The call has returned a table.
Returned == pc \in {"returned", "done"} /\ df_meteo # None

\* The truncated series before the date filter, rebuilt from the reply.
PreFilter == WithDerived(SlicedColumns(hourly[1], min_length[1]))

\* The window's bounds in seconds: start_date 00:00:00 and end_date 23:59:59.
WindowStart == start_date * 86400
WindowEnd == end_date * 86400 + 86399

InWindow(t) == WindowStart <= t /\ t <= WindowEnd

\* C1 as stated: for every reply that carries the timestamps and the requested
\* sequences, whatever their lengths, the table before the date filter has
\* exactly min_length rows, each column being the first min_length entries of
\* its sequence (the timestamps parsed), min_length being the least length
\* among the data-bearing sequences.
C1_TruncatedToShortest ==
    (pc \in {"built", "derived", "raised"} /\ ~MissingKey(hourly[1])) =>
        /\ pc # "raised"
        /\ LET h == hourly[1]
               m == Shortest(h)
               df == df_temp[1]
           IN  /\ RowCount(df) = m
               /\ \A c \in Columns :
                    /\ Len(h[ColumnKey[c]]) >= m
                    /\ Len(df[c]) = m
                    /\ \A i \in 1..m :
                         df[c][i] = IF c = "time"
                                    THEN ToDatetime(h["time"][i])
                                    ELSE h[ColumnKey[c]][i]

\* C2 as stated: a reply whose data arrays are all absent or empty ends in the
\* "no valid data" error and no table.
C2_EmptyOrAbsentFails ==
    ( /\ pc \in {"returned", "done"}
      /\ hourly # None
      /\ \A k \in DataBearing(hourly[1]) : Len(hourly[1][k]) = 0 ) =>
        /\ df_meteo = None
        /\ st_errors = <<MsgNoData>>

\* C2, amended: a reply with no data-bearing key at all (every data array
\* absent) ends in the "no valid data" error and no table, never in a table.
C2_NoDataKeysFails ==
    ( /\ pc \notin {"idle", "call", "fetched"}
      /\ hourly # None
      /\ DataBearing(hourly[1]) = {} ) =>
        /\ pc \in {"returned", "done"}
        /\ df_meteo = None
        /\ df_temp = None
        /\ st_errors = <<MsgNoData>>

C2_Witness ==
    /\ pc = "returned"
    /\ hourly # None
    /\ DOMAIN hourly[1] = {"time", "interval"}
    /\ Len(hourly[1]["time"]) > 0
    /\ df_meteo = None
    /\ st_errors = <<MsgNoData>>

\* C3: in the returned table, each record's accumulated_rain and
\* accumulated_snow are the sums of rain and snowfall over the truncated
\* series from its first record up to that record, the records before the
\* window included.
C3_AccumulatedBeforeWindow ==
    Returned =>
        LET df == df_meteo[1]
            pre == PreFilter
        IN  \A j \in 1..RowCount(df) :
              \E i \in 1..RowCount(pre) :
                /\ pre["time"][i] = df["time"][j]
                /\ df["accumulated_rain"][j] = SeqSum(Prefix(pre["rain"], i))
                /\ df["accumulated_snow"][j] =
                       SeqSum(Prefix(pre["snowfall"], i))

\* A table whose first record follows discarded hours with rain and snow.
C3_Witness ==
    /\ Returned
    /\ RowCount(df_meteo[1]) > 0
    /\ RowCount(df_meteo[1]) < RowCount(PreFilter)
    /\ df_meteo[1]["accumulated_rain"][1] > df_meteo[1]["rain"][1]
    /\ df_meteo[1]["accumulated_snow"][1] > df_meteo[1]["snowfall"][1]

\* C4: the returned table holds exactly the records of the truncated series
\* whose timestamp lies in [start_date 00:00:00, end_date 23:59:59], bounds
\* included, each with all its fields.
C4_ExactlyTheWindow ==
    Returned =>
        LET df == df_meteo[1]
            pre == PreFilter
            kept == { i \in 1..RowCount(pre) : InWindow(pre["time"][i]) }
        IN  /\ DOMAIN df = DOMAIN pre
            /\ RowCount(df) = Cardinality(kept)
            /\ \A i \in kept : \E j \in 1..RowCount(df) :
                 \A c \in DOMAIN pre : df[c][j] = pre[c][i]
            /\ \A j \in 1..RowCount(df) : \E i \in kept :
                 \A c \in DOMAIN pre : df[c][j] = pre[c][i]

\* A one-day window that keeps the records at both of its bounds and drops
\* the one just after it.
C4_Witness ==
    /\ Returned
    /\ start_date = end_date
    /\ RowCount(df_meteo[1]) = 2
    /\ df_meteo[1]["time"][1] = WindowStart
    /\ df_meteo[1]["time"][2] = WindowEnd
    /\ \E i \in 1..RowCount(PreFilter) : PreFilter["time"][i] = WindowEnd + 1

\* C5: in every table, at every stage after the derivation, clouds_total is
\* the plain sum of the record's three layers, above 100 or not.
C5_CloudsTotalIsSum ==
    (pc \in {"derived", "returned", "done"} /\ df_temp # None) =>
        LET df == df_temp[1]
        IN  /\ Len(df["clouds_total"]) = RowCount(df)
            /\ \A j \in 1..RowCount(df) :
                 df["clouds_total"][j] =
                     df["clouds_low"][j] + df["clouds_mid"][j]
                       + df["clouds_high"][j]

C5_Witness ==
    /\ Returned
    /\ \E j \in 1..RowCount(df_meteo[1]) : df_meteo[1]["clouds_total"][j] > 100

\* C6: accumulated_rain and accumulated_snow never decrease from a record of
\* the returned table to the next.
C6_AccumulatedNonDecreasing ==
    Returned =>
        LET df == df_meteo[1]
        IN  \A j \in 1..(RowCount(df) - 1) :
              /\ df["accumulated_rain"][j] <= df["accumulated_rain"][j + 1]
              /\ df["accumulated_snow"][j] <= df["accumulated_snow"][j + 1]

\* A table where the hourly rain falls from one record to the next while the
\* total goes on rising.
C6_Witness ==
    /\ Returned
    /\ \E j \in 1..(RowCount(df_meteo[1]) - 1) :
         /\ df_meteo[1]["rain"][j] > df_meteo[1]["rain"][j + 1]
         /\ df_meteo[1]["accumulated_rain"][j]
              < df_meteo[1]["accumulated_rain"][j + 1]
         /\ df_meteo[1]["accumulated_snow"][j]
              < df_meteo[1]["accumulated_snow"][j + 1]

StrictlyIncreasing(s) == \A j \in 1..(Len(s) - 1) : s[j] < s[j + 1]

\* C7: for a timeline emitted in increasing order, the table's timestamps are
\* strictly increasing after truncation and after the date filter.
C7_StrictlyIncreasingTime ==
    /\ df_temp # None => StrictlyIncreasing(df_temp[1]["time"])
    /\ df_meteo # None => StrictlyIncreasing(df_meteo[1]["time"])

\* A table of two records of one day, cut from a longer timeline by both the
\* truncation and the filter.
C7_Witness ==
    /\ Returned
    /\ RowCount(df_meteo[1]) = 2
    /\ df_meteo[1]["time"][2] - df_meteo[1]["time"][1] < 86400
    /\ RowCount(PreFilter) > 2
    /\ Len(hourly[1]["time"]) > RowCount(PreFilter)

\* C8: when the request fails, the error message is shown once, nothing is
\* built or returned, the request is not repeated, and the run ends without
\* chart or download buttons.
C8_FetchFailure ==
    (pc # "idle" /\ pc # "call" /\ hourly = None) =>
        /\ pc \in {"returned", "done"}
        /\ n_requests = 1
        /\ st_errors = <<MsgApi>>
        /\ df_temp = None
        /\ df_meteo = None
        /\ ~chart_shown
        /\ downloads = {}

C8_Witness ==
    /\ pc = "done"
    /\ hourly = None
    /\ n_requests = 1
    /\ st_errors = <<MsgApi>>
    /\ ~chart_shown

\* The call returned a table without records.
EmptyTable == df_meteo # None /\ RowCount(df_meteo[1]) = 0

\* C9 as stated: at the end of the run the warning is shown exactly when the
\* table came back empty, and an empty table comes without error message.
C9_WarningOnlyForEmptyWindow ==
    pc = "done" =>
        /\ (MsgNoPeriod \in { st_warnings[i] : i \in DOMAIN st_warnings })
             <=> EmptyTable
        /\ EmptyTable => st_errors = <<>>

\* C9, amended: the warning is shown exactly when the call returned no table
\* or an empty one; an empty table comes without error message and a failure
\* with exactly one, so only the empty window shows the warning alone.
C9_WarningWithoutUsableTable ==
    /\ pc # "done" => st_warnings = <<>>
    /\ pc = "done" =>
        /\ (st_warnings = <<MsgNoPeriod>>) <=> (df_meteo = None \/ EmptyTable)
        /\ (st_warnings = <<>>) <=> ~(df_meteo = None \/ EmptyTable)
        /\ EmptyTable => st_errors = <<>>
        /\ df_meteo = None => Len(st_errors) = 1

\* The filter removed every record of a non-empty series: warning, no error.
C9_Witness ==
    /\ pc = "done"
    /\ EmptyTable
    /\ min_length[1] > 0
    /\ st_warnings = <<MsgNoPeriod>>
    /\ st_errors = <<>>
    /\ ~chart_shown

----------------------------------------------------------------------------
(* Properties of get_coordinates_from_city (SpecGeo)                       *)

\* C10: the lookup never raises; it returns None, None, None, None, 0 when
\* the request or its parsing fails, when the document has no "results",
\* when the list is empty and when the first result cannot be read; on a
\* match it returns the first result's latitude, longitude and name, the
\* country or "" and the elevation or 0.
C10_LookupOutcome ==
    /\ geo_pc # "raised"
    /\ geo_pc = "returned" =>
         IF geo_data = None
            \/ geo_data[1].type # "object"
            \/ geo_data[1].results = None
            \/ geo_data[1].results[1] = <<>>
         THEN geo_ret = << << <<>>, <<>>, <<>>, <<>>, 0 >> >>
         ELSE LET r == geo_data[1].results[1][1]
                  has(k) == k \in DOMAIN r
              IN  IF has("latitude") /\ has("longitude") /\ has("name")
                  THEN geo_ret =
                         << << <<r["latitude"]>>, <<r["longitude"]>>,
                               <<r["name"]>>,
                               IF has("country") THEN <<r["country"]>>
                               ELSE <<"">>,
                               IF has("elevation") THEN r["elevation"]
                               ELSE 0 >> >>
                  ELSE geo_ret = << << <<>>, <<>>, <<>>, <<>>, 0 >> >>

\* A match on the equator among two results, without country and elevation.
C10_Witness ==
    /\ geo_pc = "returned"
    /\ geo_data # None
    /\ geo_data[1].results # None
    /\ Len(geo_data[1].results[1]) = 2
    /\ DOMAIN geo_data[1].results[1][1] = {"latitude", "longitude", "name"}
    /\ geo_ret = << << <<0>>, <<109>>, <<"Pontianak">>, <<"">>, 0 >> >>

----------------------------------------------------------------------------
(* Properties of the cached calls (SpecCache)                              *)

\* The earlier calls of the function and arguments of call j.
SameBefore(j) ==
    { i \in 1..(j - 1) :
        calls[i].fn = calls[j].fn /\ calls[i].args = calls[j].args }

\* Those among them that ran the function and returned, which is when a value
\* is stored.
StoredBefore(j) ==
    { i \in SameBefore(j) : calls[i].requested /\ calls[i].raised = None }

\* Of these, for a forecast call, the ones less than 3600 s old at call j.
StoredInTime(j) ==
    { i \in StoredBefore(j) : calls[j].at - calls[i].at < 3600 }

Latest(S) == CHOOSE i \in S : \A k \in S : k <= i

\* C11 as stated, for the forecast calls: a call with the arguments of an
\* earlier call that returned less than 3600 s before returns that call's
\* result without a new request.
C11_AnyEarlierCallWithinTTL ==
    \A j \in 1..Len(calls) :
      calls[j].fn = "fetch" =>
        \A i \in SameBefore(j) :
          (calls[i].raised = None /\ calls[j].at - calls[i].at < 3600) =>
            /\ ~calls[j].requested
            /\ calls[j].raised = None
            /\ calls[j].value = calls[i].value

\* C11, amended: a forecast call is answered without a request, with the
\* stored result, exactly when an earlier call with the same arguments ran the
\* function and returned less than 3600 s before; otherwise it issues one
\* request.  A geocoding call is answered without a request, with the stored
\* result, exactly when an earlier call with the same query returned.  Calls
\* with other arguments change none of this.
C11_ServedFromStoredResult ==
    /\ \A j \in 1..Len(calls) :
         LET S == IF calls[j].fn = "fetch" THEN StoredInTime(j)
                  ELSE StoredBefore(j)
         IN  /\ calls[j].requested <=> S = {}
             /\ S # {} =>
                  /\ calls[j].raised = None
                  /\ calls[j].value = calls[Latest(S)].value
    /\ n_requests =
         Cardinality({ j \in 1..Len(calls) :
                         calls[j].fn = "fetch" /\ calls[j].requested })

\* Three forecast calls with the same arguments: the first runs the function,
\* the second is served from the cache half a time-to-live later, the third
\* runs it again when the time-to-live has passed.
C11_Witness ==
    /\ Len(calls) = 3
    /\ \A j \in 1..3 : calls[j].fn = "fetch" /\ calls[j].args = calls[1].args
    /\ calls[1].requested /\ calls[1].value # None
    /\ ~calls[2].requested /\ calls[2].at - calls[1].at < 3600
    /\ calls[2].value = calls[1].value
    /\ calls[3].requested /\ calls[3].at - calls[1].at = 3600


----------------------------------------------------------------------------
(* Properties of the form (SpecUI)                                         *)

\* The messages of a sequence of messages.
Shown(msgs) == { msgs[i] : i \in 1..Len(msgs) }

\* The positions in `calls` of the calls of fetch_and_process_data.
FetchCalls == { i \in 1..Len(calls) : calls[i].fn = "fetch" }

\* The run called fetch_and_process_data with the form's coordinates and dates.
CalledWith(lat, lon) ==
    \E i \in FetchCalls : calls[i].args = << lat, lon, start_date, end_date >>

\* The dates have been read and validated.
DatesRead == pc \in { "button", "output", "returned", "raised", "done" }

\* The output section has been passed.
OutputPassed == pc \in { "returned", "raised", "done" }

\* C12: fetch_and_process_data is invoked only when the generate button was
\* pressed, start_date <= end_date and a coordinate is set; with
\* start_date > end_date the form shows the date error and neither the call
\* nor the chart happens; with start_date = end_date, the button pressed and
\* a coordinate set, the call is made.
C12_CallOnlyWhenValid ==
    /\ FetchCalls # {} =>
          btn_generate /\ start_date <= end_date /\ final_lat # None
    /\ (DatesRead /\ start_date > end_date) =>
          /\ MsgDates \in Shown(st_errors)
          /\ FetchCalls = {}
          /\ n_requests = 0
          /\ ~chart_shown
    /\ (OutputPassed /\ btn_generate /\ start_date = end_date
          /\ final_lat # None) =>
          /\ CalledWith(final_lat[1], final_lon[1])
          /\ n_requests = 1

\* A run with a coordinate set and the button pressed on dates out of order
\* has ended without a call.
C12_Witness ==
    /\ pc = "done"
    /\ btn_generate
    /\ final_lat # None
    /\ start_date > end_date
    /\ MsgDates \in Shown(st_errors)
    /\ FetchCalls = {}

\* C13: whenever get_coordinates_from_city returned a match for the entered
\* query, whatever its latitude and longitude, the search flow has set the
\* final latitude, longitude, name and altitude from it and shown no "not
\* found" message, and a generate action on valid dates has called
\* fetch_and_process_data with those coordinates; the "not found" message
\* is shown only when the lookup returned NotFound.
C13_MatchAccepted ==
    (search_method = "search" /\ geo_ret # None) =>
        LET t == geo_ret[1]
        IN  /\ t # NotFound =>
                  /\ final_lat = t[1]
                  /\ final_lon = t[2]
                  /\ location_name = t[3][1]
                  /\ location_altitude = t[5]
                  /\ MsgNotFound \notin Shown(st_errors)
                  /\ (OutputPassed /\ Generating) =>
                        CalledWith(t[1][1], t[2][1])
            /\ MsgNotFound \in Shown(st_errors) => t = NotFound

====
